---------------------------- MODULE Spec2Model ----------------------------
(***************************************************************************)
(* Model of the telegram-data-agent pipeline:                              *)
(*   START -> translate -> evaluate -> (translate | plan) -> worker -> END *)
(*                                                                         *)
(* Numbers that are floats in the program (scores, thresholds) are kept    *)
(* as fixed-point integers in thousandths: 0.75 is 750, the evaluator's    *)
(* raw score 7.5 is 7500.  The graph state is a Python dict: a function    *)
(* from key names to values whose domain holds only the keys that are set. *)
(***************************************************************************)
EXTENDS Integers, Sequences, FiniteSets, TLC

VARIABLES
    st,      \* the LangGraph state dict
    pc,      \* the node the graph runs next, "__end__", or "raised"
    calls,   \* how often each node was invoked in this run
    llm,     \* how many external text-generation calls each node made
    fails,   \* how many of each node's external calls failed
    raised,  \* [node, exc] of the exception that ended the run, if any
    entry,   \* the state with which the plan node was entered (<<>> before)
    probe,   \* one call of a node function: [fn, state, inv, out, done]
    db,      \* the DynamoDB table and the push_to_dynamodb calls under way
    wk       \* the locals of the worker's tool loop

vars == <<st, pc, calls, llm, fails, raised, entry, probe, db, wk>>

-----------------------------------------------------------------------------
(* Bounds of the model *)

\* largest max_iterations the caller passes
MaxIterBound == 3
\* largest iteration value handed to the router in the pure-function harness
MaxProbeIter == 6

-----------------------------------------------------------------------------
(* Python dict helpers *)

Get(d, k, default) == IF k \in DOMAIN d THEN d[k] ELSE default

\* LangGraph merges the dict a node returns into the state, key by key
Merge(d, upd) ==
    [k \in (DOMAIN d) \cup (DOMAIN upd) |->
        IF k \in DOMAIN upd THEN upd[k] ELSE d[k]]

Restrict(d, K) == [k \in K |-> d[k]]

\* fixed-point representation of the float 1.0
One == 10 * 10 * 10

-----------------------------------------------------------------------------
(* utils/sanitizer.py: texts are sequences of characters *)

IsSpace(c) == c \in {" ", "\n", "\t", "\r"}

Lower(c) ==
    CASE c = "S" -> "s" [] c = "Y" -> "y" [] c = "T" -> "t" [] c = "E" -> "e"
      [] c = "M" -> "m" [] c = "A" -> "a" [] c = "N" -> "n" [] c = "U" -> "u"
      [] c = "R" -> "r" [] c = "I" -> "i" [] OTHER -> c

RoleWords ==
    << <<"s","y","s","t","e","m">>,
       <<"a","s","s","i","s","t","a","n","t">>,
       <<"u","s","e","r">> >>

\* does word w occur in s at position i, ignoring case
WordAt(s, i, w) ==
    /\ i + Len(w) - 1 <= Len(s)
    /\ \A k \in 1..Len(w) : Lower(s[i + k - 1]) = w[k]

RECURSIVE SkipSpaces(_, _)
SkipSpaces(s, j) ==
    IF j <= Len(s) /\ IsSpace(s[j]) THEN SkipSpaces(s, j + 1) ELSE j

\* index of the last character of a match of (system|assistant|user)\s*: that
\* starts at i, or 0 when there is none
RoleMarkerEnd(s, i) ==
    LET hits == {n \in 1..Len(RoleWords) : WordAt(s, i, RoleWords[n])}
    IN  IF hits = {} THEN 0
        ELSE LET w == RoleWords[CHOOSE n \in hits : \A m \in hits : n <= m]
                 j == SkipSpaces(s, i + Len(w))
             IN  IF j <= Len(s) /\ s[j] = ":" THEN j ELSE 0

RECURSIVE RemoveRoleMarkers(_, _)
RemoveRoleMarkers(s, i) ==
    IF i > Len(s) THEN <<>>
    ELSE LET e == RoleMarkerEnd(s, i)
         IN  IF e > 0 THEN RemoveRoleMarkers(s, e + 1)
             ELSE <<s[i]>> \o RemoveRoleMarkers(s, i + 1)

\* the token that stands for the backquote character
BackQuote == "bq"

FenceAt(s, i) ==
    /\ i + 2 <= Len(s)
    /\ s[i] = BackQuote /\ s[i + 1] = BackQuote /\ s[i + 2] = BackQuote

\* fence, anything (lazy), fence: the closing fence is the first one at or after i + 3
RECURSIVE RemoveCodeBlocks(_, _)
RemoveCodeBlocks(s, i) ==
    IF i > Len(s) THEN <<>>
    ELSE LET closes == {j \in (i + 3)..Len(s) : FenceAt(s, j)}
         IN  IF FenceAt(s, i) /\ closes # {}
             THEN RemoveCodeBlocks(
                      s, (CHOOSE j \in closes : \A m \in closes : j <= m) + 3)
             ELSE <<s[i]>> \o RemoveCodeBlocks(s, i + 1)

\* <[^>]+> : at least one character other than > between the brackets
RECURSIVE RemoveTags(_, _)
RemoveTags(s, i) ==
    IF i > Len(s) THEN <<>>
    ELSE LET closes == {j \in (i + 1)..Len(s) : s[j] = ">"}
             first  == CHOOSE j \in closes : \A m \in closes : j <= m
         IN  IF s[i] = "<" /\ closes # {} /\ first >= i + 2
             THEN RemoveTags(s, first + 1)
             ELSE <<s[i]>> \o RemoveTags(s, i + 1)

RECURSIVE NewlineRunEnd(_, _)
NewlineRunEnd(s, j) ==
    IF j <= Len(s) /\ s[j] = "\n" THEN NewlineRunEnd(s, j + 1) ELSE j

\* \n{3,} -> \n\n
RECURSIVE CollapseNewlines(_, _)
CollapseNewlines(s, i) ==
    IF i > Len(s) THEN <<>>
    ELSE LET e == NewlineRunEnd(s, i)
         IN  IF e - i >= 3 THEN <<"\n", "\n">> \o CollapseNewlines(s, e)
             ELSE <<s[i]>> \o CollapseNewlines(s, i + 1)

Strip(s) ==
    LET keep == {i \in 1..Len(s) : ~IsSpace(s[i])}
    IN  IF keep = {} THEN <<>>
        ELSE LET lo == CHOOSE i \in keep : \A m \in keep : i <= m
                 hi == CHOOSE i \in keep : \A m \in keep : i >= m
             IN  SubSeq(s, lo, hi)

max_length == 4096

sanitize_user_input(text) ==
    IF text = <<>> THEN <<>>
    ELSE LET a == RemoveRoleMarkers(text, 1)
             b == RemoveCodeBlocks(a, 1)
             c == RemoveTags(b, 1)
             d == CollapseNewlines(c, 1)
             e == Strip(d)
         IN  IF Len(e) > max_length THEN SubSeq(e, 1, max_length) ELSE e

-----------------------------------------------------------------------------
(* The external text generator.  An invocation either raises or returns a  *)
(* message whose content is a text.  A text that the nodes parse as JSON   *)
(* is represented by its parse: [kind, t, obj], where kind is "empty",     *)
(* "notjson" or "json", t the type of the JSON value and obj, for an       *)
(* object, the dict it parses to.                                          *)

NoObj == <<>>

Text(kind, t, obj) == [kind |-> kind, t |-> t, obj |-> obj]

Invocation(ok, content) == [ok |-> ok, content |-> content]

\* json.loads(response_text.strip())
JsonLoads(text) ==
    IF text.kind = "json"
    THEN [exc |-> "", t |-> text.t, obj |-> text.obj]
    ELSE [exc |-> "JSONDecodeError", t |-> "", obj |-> NoObj]

\* what a node returns: the exception it raises ("" when none), the state
\* update it returns, and the number of external calls it made
NodeResult(exc, update, n) == [exc |-> exc, update |-> update, llm_calls |-> n]

-----------------------------------------------------------------------------
(* nodes/translate.py *)

\* the node with the failure of the external call swallowed (C8)
translate_node_swallow(state, inv) ==
    LET input_text == Get(state, "input_text", <<>>)
        sanitized  == sanitize_user_input(input_text)
    IN  IF input_text = <<>> THEN NodeResult("", [translated_text |-> ""], 0)
        ELSE IF sanitized = <<>>
        THEN NodeResult("", [translated_text |-> ""], 0)
        ELSE IF ~inv.ok THEN NodeResult("", [translated_text |-> ""], 1)
        ELSE NodeResult("", [translated_text |-> inv.content], 1)

\* the node without the early return for a text that is sanitized away
translate_node_unguarded(state, inv) ==
    LET input_text == Get(state, "input_text", <<>>)
    IN  IF input_text = <<>> THEN NodeResult("", [translated_text |-> ""], 0)
        ELSE IF ~inv.ok THEN NodeResult("Exception", <<>>, 1)
        ELSE NodeResult("", [translated_text |-> inv.content], 1)

translate_node(state, inv) ==
    LET input_text == Get(state, "input_text", <<>>)
        sanitized  == sanitize_user_input(input_text)
    IN  IF input_text = <<>> THEN NodeResult("", [translated_text |-> ""], 0)
        ELSE IF sanitized = <<>>
        THEN NodeResult("", [translated_text |-> ""], 0)
        ELSE IF ~inv.ok THEN NodeResult("Exception", <<>>, 1)
        ELSE NodeResult("", [translated_text |-> inv.content], 1)

-----------------------------------------------------------------------------
(* nodes/evaluate.py *)

ParseFailedFeedback == "Evaluation parsing failed. Please re-translate."
NoTranslationFeedback == "No translation provided."
ExhaustedMessage == "Translation quality threshold not met"

EvaluateDefaultMaxIterations == 5
EvaluateDefaultThreshold == 750

\* float(x): the exception it raises, "" when x converts
FloatExc(x) ==
    CASE x.t \in {"number", "numstr"} -> ""
      [] x.t = "str" -> "ValueError"
      [] OTHER -> "TypeError"

\* _parse_evaluation_response: [exc, score, feedback]
ParseEvaluationResponse(text) ==
    LET parsed == JsonLoads(text)
        fail(e) == [exc |-> e, score |-> 0, feedback |-> ""]
    IN  IF parsed.exc # "" THEN fail(parsed.exc)
        ELSE IF parsed.t # "object" THEN fail("TypeError")
        ELSE IF "score" \notin DOMAIN parsed.obj THEN fail("KeyError")
        ELSE IF FloatExc(parsed.obj["score"]) # ""
        THEN fail(FloatExc(parsed.obj["score"]))
        ELSE IF "feedback" \notin DOMAIN parsed.obj THEN fail("KeyError")
        ELSE [exc |-> "",
              score |-> parsed.obj["score"].v \div 10,
              feedback |-> parsed.obj["feedback"]]

\* the try/except around the invocation and the parse: [exc, score, feedback]
EvaluateResult(inv) ==
    LET r == ParseEvaluationResponse(inv.content)
    IN  IF ~inv.ok THEN [exc |-> "Exception", score |-> 0, feedback |-> ""]
        ELSE IF r.exc = "JSONDecodeError"
        THEN [exc |-> "", score |-> 0, feedback |-> ParseFailedFeedback]
        ELSE r

\* the counter left as it was (C4)
NewIterationStuck(current_iteration) == current_iteration

NewIteration(current_iteration) == current_iteration + 1

evaluate_node(state, inv) ==
    LET translated_text == Get(state, "translated_text", "")
        new_iteration   == NewIteration(Get(state, "iteration", 0))
        max_iterations  ==
            Get(state, "max_iterations", EvaluateDefaultMaxIterations)
        threshold       == Get(state, "threshold", EvaluateDefaultThreshold)
        result          == EvaluateResult(inv)
    IN  IF translated_text = ""
        THEN NodeResult("", [score |-> 0, feedback |-> NoTranslationFeedback,
                             iteration |-> new_iteration], 0)
        ELSE IF result.exc # "" THEN NodeResult(result.exc, <<>>, 1)
        ELSE NodeResult("",
                 [score |-> result.score,
                  feedback |-> result.feedback,
                  iteration |-> new_iteration,
                  error_message |->
                      IF new_iteration >= max_iterations
                         /\ result.score < threshold
                      THEN ExhaustedMessage ELSE ""], 1)

-----------------------------------------------------------------------------
(* graph.py: routing *)

RouteDefaultThreshold == 800
RouteDefaultMaxIterations == 5

\* the router reading the score from the field the State of state.py declares
route_after_evaluate_evaluation_score(state) ==
    LET score          == Get(state, "evaluation_score", 0)
        threshold      == Get(state, "threshold", RouteDefaultThreshold)
        iteration      == Get(state, "iteration", 0)
        max_iterations ==
            Get(state, "max_iterations", RouteDefaultMaxIterations)
    IN  IF score >= threshold \/ iteration >= max_iterations
        THEN "plan" ELSE "translate"

\* the router with a strict comparison of the score
route_after_evaluate_strict(state) ==
    LET score          == Get(state, "score", 0)
        threshold      == Get(state, "threshold", RouteDefaultThreshold)
        iteration      == Get(state, "iteration", 0)
        max_iterations ==
            Get(state, "max_iterations", RouteDefaultMaxIterations)
    IN  IF score > threshold \/ iteration >= max_iterations
        THEN "plan" ELSE "translate"

route_after_evaluate(state) ==
    LET score          == Get(state, "score", 0)
        threshold      == Get(state, "threshold", RouteDefaultThreshold)
        iteration      == Get(state, "iteration", 0)
        max_iterations ==
            Get(state, "max_iterations", RouteDefaultMaxIterations)
    IN  IF score >= threshold \/ iteration >= max_iterations
        THEN "plan" ELSE "translate"

-----------------------------------------------------------------------------
(* nodes/plan.py.  Strings built by formatting are sequences of pieces.    *)
(* incident_data is None (<<>>) or a dict.                                 *)

CrimeType ==
    {"rock_throwing", "molotov_cocktail", "ramming", "stabbing", "shooting",
     "theft"}

None == <<>>

\* "not x" for a value that is None or a dict
IsNone(x) == DOMAIN x = {}

\* the parse with the crime passed through unvalidated (C10)
ParsePlanResponseUnchecked(text) ==
    LET parsed == JsonLoads(text)
        obj    == parsed.obj
    IN  IF parsed.exc # "" THEN [exc |-> parsed.exc, value |-> <<>>]
        ELSE IF parsed.t # "object"
        THEN [exc |-> "AttributeError", value |-> <<>>]
        ELSE IF ~Get(obj, "relevant", FALSE)
        THEN [exc |-> "",
              value |-> [relevant |-> FALSE,
                         reason |-> Get(obj, "reason", "Event not relevant")]]
        ELSE [exc |-> "",
              value |-> [relevant |-> TRUE,
                         location |-> Get(obj, "location", ""),
                         crime |-> Get(obj, "crime", ""),
                         requires_email_alert |->
                             Get(obj, "requires_email_alert", FALSE)]]

\* _parse_plan_response: [exc, value]
ParsePlanResponse(text) ==
    LET parsed == JsonLoads(text)
        obj    == parsed.obj
        crime_value == Get(obj, "crime", "")
    IN  IF parsed.exc # "" THEN [exc |-> parsed.exc, value |-> <<>>]
        ELSE IF parsed.t # "object"
        THEN [exc |-> "AttributeError", value |-> <<>>]
        ELSE IF ~Get(obj, "relevant", FALSE)
        THEN [exc |-> "",
              value |-> [relevant |-> FALSE,
                         reason |-> Get(obj, "reason", "Event not relevant")]]
        ELSE IF crime_value \notin CrimeType
        THEN [exc |-> "ValueError",
              value |-> <<"Invalid crime type: ", crime_value>>]
        ELSE [exc |-> "",
              value |-> [relevant |-> TRUE,
                         location |-> Get(obj, "location", ""),
                         crime |-> crime_value,
                         requires_email_alert |->
                             Get(obj, "requires_email_alert", FALSE)]]

\* _build_incident_data
BuildIncidentData(location, crime) == [location |-> location, crime |-> crime]

PlanSkip(reason) ==
    [skip_processing |-> TRUE,
     incident_data |-> None,
     requires_email_alert |-> FALSE,
     plan_reason |-> reason]

plan_node(state, inv) ==
    LET translated_text == Get(state, "translated_text", "")
        r == ParsePlanResponse(inv.content)
    IN  IF translated_text = ""
        THEN NodeResult("", PlanSkip(<<"No translated text provided">>), 0)
        ELSE IF ~inv.ok THEN NodeResult("Exception", <<>>, 1)
        ELSE IF r.exc = "JSONDecodeError"
        THEN NodeResult("", PlanSkip(<<"Failed to parse LLM response">>), 1)
        ELSE IF r.exc = "ValueError"
        THEN NodeResult("", PlanSkip(r.value), 1)
        ELSE IF r.exc # "" THEN NodeResult(r.exc, <<>>, 1)
        ELSE IF ~r.value.relevant
        THEN NodeResult("", PlanSkip(<<r.value.reason>>), 1)
        ELSE NodeResult("",
                 [incident_data |->
                      BuildIncidentData(r.value.location, r.value.crime),
                  requires_email_alert |-> r.value.requires_email_alert,
                  plan_reason |-> <<"Relevant incident in Judea & Samaria">>],
                 1)

-----------------------------------------------------------------------------
(* nodes/worker.py: entry of the worker *)

\* _build_user_prompt: the exception it raises, "" when the prompt is built
BuildUserPromptExc(state) ==
    LET incident_data == Get(state, "incident_data", None)
    IN  IF IsNone(incident_data) THEN ""
        ELSE IF {"location", "crime", "created_at"} \subseteq
                    DOMAIN incident_data
        THEN "" ELSE "KeyError"

\* _build_user_prompt: the exception, and the lines of the prompt with the
\* formatted values as pieces of their own
build_user_prompt(state) ==
    LET incident_data == Get(state, "incident_data", None)
        plan == << <<"## Current Plan">>,
                   <<"- requires_email_alert: ",
                     Get(state, "requires_email_alert", FALSE)>>,
                   <<"- plan_reason: ">>
                       \o Get(state, "plan_reason", <<"No reason provided">>) >>
        last == << <<"">>,
                   <<"Execute the appropriate tools based on this plan, then report completion.">> >>
    IN  IF BuildUserPromptExc(state) # ""
        THEN [exc |-> BuildUserPromptExc(state), prompt |-> <<>>]
        ELSE IF IsNone(incident_data)
        THEN [exc |-> "",
              prompt |-> plan \o << <<"">>, <<"## Incident Data">>,
                                    <<"No incident data available.">> >>
                              \o last]
        ELSE [exc |-> "",
              prompt |-> plan \o << <<"">>, <<"## Incident Data">>,
                                    <<"- location: ", incident_data.location>>,
                                    <<"- crime: ", incident_data.crime>>,
                                    <<"- created_at: ",
                                      incident_data.created_at>> >>
                              \o last]

\* the entry without the early exit for a state that has no incident
worker_entry_noskip(state) ==
    IF BuildUserPromptExc(state) # ""
    THEN [exc |-> BuildUserPromptExc(state), next |-> "raised",
          update |-> <<>>]
    ELSE [exc |-> "", next |-> "loop", update |-> <<>>]

\* the part of worker_node before its tool loop; next is "loop" when the
\* prompt was built and the loop is entered
worker_entry(state) ==
    LET incident_data == Get(state, "incident_data", None)
        reason == Get(state, "plan_reason", <<"No processing required">>)
    IN  IF IsNone(incident_data)
        THEN [exc |-> "", next |-> "__end__",
              update |-> [worker_output |-> <<"Skipped processing: ">> \o reason,
                          should_end |-> TRUE]]
        ELSE IF BuildUserPromptExc(state) # ""
        THEN [exc |-> BuildUserPromptExc(state), next |-> "raised",
              update |-> <<>>]
        ELSE [exc |-> "", next |-> "loop", update |-> <<>>]

\* should_continue
should_continue(state) ==
    IF Get(state, "should_end", FALSE) THEN "end" ELSE "worker"

-----------------------------------------------------------------------------
(* What the environment can supply *)

\* raw scores the evaluator can return, in thousandths (7500 is 7.5)
RawScores == {0 - 1000, 0, 3000, 6000, 7500, 10000, 11000}

Thresholds == {750, 1000}

InputTexts ==
    { <<>>,
      <<"u", "s", "e", "r", ":">>,
      <<"h", "i">>,
      <<"<", "b", ">", "h", "i">> }

TranslateInvocations ==
    {Invocation(FALSE, ""), Invocation(TRUE, ""),
     Invocation(TRUE, "t1"), Invocation(TRUE, "t2")}

ScoreValues ==
    {[t |-> "number", v |-> x] : x \in RawScores}
        \cup {[t |-> "numstr", v |-> 7500], [t |-> "str", v |-> 0],
              [t |-> "null", v |-> 0]}

EvalObjects ==
    {Restrict(o, K) :
        o \in [score : ScoreValues, feedback : {"", "fix it"}],
        K \in SUBSET {"score", "feedback"}}

NonObjectTexts ==
    {Text("empty", "", NoObj), Text("notjson", "", NoObj),
     Text("json", "array", NoObj), Text("json", "null", NoObj),
     Text("json", "number", NoObj)}

EvaluateInvocations ==
    {Invocation(FALSE, Text("empty", "", NoObj))}
        \cup {Invocation(TRUE, x) : x \in NonObjectTexts}
        \cup {Invocation(TRUE, Text("json", "object", o)) : o \in EvalObjects}

PlanObjects ==
    {Restrict(o, K) :
        o \in [relevant : BOOLEAN,
               reason : {"not in region"},
               location : {"Jerusalem", "Hebron"},
               crime : CrimeType \cup {"arson"},
               requires_email_alert : BOOLEAN],
        K \in { {"relevant", "reason", "location", "crime",
                 "requires_email_alert"},
                {"relevant", "location", "crime"},
                {"relevant", "location", "requires_email_alert"},
                {"relevant"},
                {"reason"},
                {} }}

PlanInvocations ==
    {Invocation(FALSE, Text("empty", "", NoObj))}
        \cup {Invocation(TRUE, x) : x \in NonObjectTexts}
        \cup {Invocation(TRUE, Text("json", "object", o)) : o \in PlanObjects}

\* the state the entry point passes to the graph (__main__.py): threshold and
\* max_iterations may be left out, and then the nodes' defaults apply
InitialStates ==
    {Restrict(o, K) :
        o \in [input_text : InputTexts,
               score : {0},
               iteration : {0},
               threshold : Thresholds,
               max_iterations : 1..MaxIterBound],
        K \in { {"input_text", "score", "iteration", "threshold",
                 "max_iterations"},
                {"input_text", "score", "iteration", "threshold"},
                {"input_text", "score", "iteration", "max_iterations"},
                {"input_text", "score", "iteration"} }}

-----------------------------------------------------------------------------
(* The compiled graph *)

NoCalls == [translate |-> 0, evaluate |-> 0, plan |-> 0, worker |-> 0]
NotRaised == [node |-> "", exc |-> ""]
NoInvocation == Invocation(TRUE, "")
NoProbe ==
    [fn |-> "", state |-> <<>>, inv |-> NoInvocation, out |-> <<>>,
     done |-> FALSE]

\* no table and no worker loop
NoDb == <<>>
NoWork == <<>>

Init ==
    /\ st \in InitialStates
    /\ pc = "translate"
    /\ calls = NoCalls
    /\ llm = NoCalls
    /\ fails = NoCalls
    /\ raised = NotRaised
    /\ entry = <<>>
    /\ db = NoDb
    /\ wk = NoWork
    /\ probe = NoProbe

\* a node ran: count it, merge its update or end the run with its exception,
\* and follow the edge out of the node
Ran(node, res, next, inv) ==
    /\ calls' = [calls EXCEPT ![node] = @ + 1]
    /\ llm' = [llm EXCEPT ![node] = @ + res.llm_calls]
    /\ fails' = [fails EXCEPT
                    ![node] = @ + (IF res.llm_calls > 0 /\ ~inv.ok
                                   THEN 1 ELSE 0)]
    /\ IF res.exc # ""
       THEN /\ pc' = "raised"
            /\ raised' = [node |-> node, exc |-> res.exc]
            /\ st' = st
       ELSE /\ st' = Merge(st, res.update)
            /\ pc' = next
            /\ raised' = raised

\* edge translate -> evaluate
Translate ==
    /\ pc = "translate"
    /\ \E inv \in TranslateInvocations :
          Ran("translate", translate_node(st, inv), "evaluate", inv)
    /\ UNCHANGED <<entry, probe, db, wk>>

\* conditional edge evaluate -> route_after_evaluate
Evaluate ==
    /\ pc = "evaluate"
    /\ \E inv \in EvaluateInvocations :
          LET res == evaluate_node(st, inv)
          IN  Ran("evaluate", res,
                  route_after_evaluate(Merge(st, res.update)), inv)
    /\ UNCHANGED <<entry, probe, db, wk>>

\* edge plan -> worker
Plan ==
    /\ pc = "plan"
    /\ \E inv \in PlanInvocations : Ran("plan", plan_node(st, inv), "worker", inv)
    /\ entry' = <<st>>
    /\ UNCHANGED <<probe, db, wk>>

\* edge worker -> END
Worker ==
    /\ pc = "worker"
    /\ LET w == worker_entry(st)
       IN  Ran("worker", NodeResult(w.exc, w.update, 0), w.next, NoInvocation)
    /\ UNCHANGED <<entry, probe, db, wk>>

Next == Translate \/ Evaluate \/ Plan \/ Worker

Spec == Init /\ [][Next]_vars

-----------------------------------------------------------------------------
(* The node functions on their own: one call of one function on a state    *)
(* and an external response drawn from bounded sets.                       *)

RouteStates ==
    {Restrict(o, K) :
        o \in [score : {x \div 10 : x \in RawScores},
               threshold : Thresholds,
               iteration : 0..MaxProbeIter,
               max_iterations : (1..MaxIterBound) \cup {5}],
        K \in SUBSET {"score", "threshold", "iteration", "max_iterations"}}

NodeStates ==
    {Restrict(o, K) :
        o \in [translated_text : {"", "t1"},
               input_text : {<<"h", "i">>},
               iteration : 0..MaxIterBound,
               threshold : Thresholds,
               max_iterations : 1..MaxIterBound],
        K \in { {"translated_text", "input_text", "iteration", "threshold",
                 "max_iterations"},
                {"translated_text", "input_text", "iteration"},
                {"input_text"} }}

Probe(fn, state, inv) ==
    [fn |-> fn, state |-> state, inv |-> inv, out |-> <<>>, done |-> FALSE]

NodeInit ==
    /\ st = <<>>
    /\ pc = "idle"
    /\ calls = NoCalls
    /\ llm = NoCalls
    /\ fails = NoCalls
    /\ raised = NotRaised
    /\ entry = <<>>
    /\ db = NoDb
    /\ wk = NoWork
    /\ probe \in
          {Probe("route_after_evaluate", s, NoInvocation) : s \in RouteStates}
              \cup {Probe("evaluate_node", s, i) :
                       s \in NodeStates, i \in EvaluateInvocations}
              \cup {Probe("plan_node", s, i) :
                       s \in NodeStates, i \in PlanInvocations}

Call(fn, out) ==
    /\ probe.fn = fn
    /\ ~probe.done
    /\ probe' = [probe EXCEPT !.out = out, !.done = TRUE]
    /\ UNCHANGED <<st, pc, calls, llm, fails, raised, entry, db, wk>>

CallRoute == Call("route_after_evaluate", route_after_evaluate(probe.state))

CallEvaluate == Call("evaluate_node", evaluate_node(probe.state, probe.inv))

CallPlan == Call("plan_node", plan_node(probe.state, probe.inv))

NodeNext == CallRoute \/ CallEvaluate \/ CallPlan

NodeSpec == NodeInit /\ [][NodeNext]_vars

-----------------------------------------------------------------------------
(* Properties of the router (NodeSpec) *)

Routed == probe.fn = "route_after_evaluate" /\ probe.done
RScore == Get(probe.state, "score", 0)
RThreshold == Get(probe.state, "threshold", RouteDefaultThreshold)
RIteration == Get(probe.state, "iteration", 0)
RMaxIterations ==
    Get(probe.state, "max_iterations", RouteDefaultMaxIterations)

\* C1: for every (score, threshold, iteration, max_iterations) the router
\* returns "plan" if and only if score >= threshold: always when the score
\* meets the threshold, and never when score < threshold.
C1_AdvanceIffThresholdMet ==
    Routed => ((probe.out = "plan") <=> (RScore >= RThreshold))

\* C2: with score < threshold the router returns "__end__" when
\* iteration >= max_iterations and "translate" when iteration < max_iterations
\* (missing fields take their defaults, which yields "translate").
C2_AbortOnExhaustion ==
    (Routed /\ RScore < RThreshold) =>
        probe.out = (IF RIteration >= RMaxIterations
                     THEN "__end__" ELSE "translate")

-----------------------------------------------------------------------------
(* Properties of the translate/evaluate loop (Spec) *)

Score == Get(st, "score", 0)
Iteration == Get(st, "iteration", 0)
MaxIterations == Get(st, "max_iterations", RouteDefaultMaxIterations)

\* C3: the plan node is entered only from a state with score >= threshold; a
\* run whose loop is exhausted with score < threshold never executes Plan.
C3_PlanOnlyWhenThresholdMet ==
    entry # <<>> =>
        Get(entry[1], "score", 0) >=
            Get(entry[1], "threshold", RouteDefaultThreshold)

\* C4: the loop makes at most max_iterations Evaluate calls, whatever the
\* scores are, and iteration never decreases.
C4_LoopBounded ==
    [][/\ Get(st', "iteration", 0) >= Iteration
       /\ calls'.evaluate <= MaxIterations]_vars

\* C4 witness: the loop ran max_iterations (at least 2) times without ever
\* meeting the threshold, and left.
C4_Witness ==
    /\ pc = "plan"
    /\ "threshold" \in DOMAIN st /\ Score < st.threshold
    /\ MaxIterations >= 2
    /\ calls.evaluate = MaxIterations

\* C7: the score stored in the state always lies in [0, 1].
C7_ScoreInUnitInterval == Score >= 0 /\ Score <= One

\* C8: once the external call of Translate has failed nothing runs any more
\* in that run (no Evaluate, no Plan, no worker), and every Translate
\* invocation makes exactly one external call (none when the sanitized input
\* is empty).
C8_TranslateFailureIsFatal ==
    [][/\ fails.translate > 0 => UNCHANGED <<st, calls, llm>>
       /\ calls'.translate = calls.translate + 1 =>
              llm'.translate = llm.translate +
                  (IF sanitize_user_input(Get(st, "input_text", <<>>)) = <<>>
                   THEN 0 ELSE 1)]_vars

\* C8 witness: the external call failed in the second round of the loop and
\* the run ended with Translate's exception.
C8_Witness ==
    /\ pc = "raised" /\ raised.node = "translate"
    /\ fails.translate = 1
    /\ calls.translate = 2 /\ calls.evaluate = 1 /\ calls.plan = 0

-----------------------------------------------------------------------------
(* Properties of evaluate_node (NodeSpec) *)

Evaluated ==
    /\ probe.fn = "evaluate_node" /\ probe.done
    /\ Get(probe.state, "translated_text", "") # ""

\* the evaluator answered, with something that is no valid evaluation
EvaluationMalformed ==
    LET c == probe.inv.content
    IN  /\ probe.inv.ok
        /\ \/ c.kind # "json"
           \/ c.t # "object"
           \/ "score" \notin DOMAIN c.obj
           \/ "feedback" \notin DOMAIN c.obj
           \/ c.obj["score"].t \in {"str", "null"}
           \/ c.obj["score"].v < 0
           \/ c.obj["score"].v > 10 * One

\* C5: every call of evaluate_node returns iteration + 1, on every path
\* (early exit, success, degraded evaluation, any other failure).
C5_IterationIncremented ==
    (probe.fn = "evaluate_node" /\ probe.done) =>
        /\ probe.out.exc = ""
        /\ probe.out.update.iteration = Get(probe.state, "iteration", 0) + 1

\* C6: when the evaluator's output is no valid evaluation (not JSON, score or
\* feedback missing, score not a number or outside 0..10), evaluate_node does
\* not raise and returns score 0 with the parsing-failed feedback.
C6_MalformedEvaluationDegrades ==
    (Evaluated /\ EvaluationMalformed) =>
        /\ probe.out.exc = ""
        /\ probe.out.update.score = 0
        /\ probe.out.update.feedback = ParseFailedFeedback

-----------------------------------------------------------------------------
(* Properties of plan_node (NodeSpec) *)

Planned ==
    /\ probe.fn = "plan_node" /\ probe.done
    /\ Get(probe.state, "translated_text", "") # ""

\* the classifier answered with a JSON object that says relevant
SaysRelevant ==
    LET c == probe.inv.content
    IN  /\ probe.inv.ok /\ c.kind = "json" /\ c.t = "object"
        /\ Get(c.obj, "relevant", FALSE)

\* the classifier answered, with something that is no valid classification
PlanMalformed ==
    LET c == probe.inv.content
    IN  /\ probe.inv.ok
        /\ \/ c.kind # "json"
           \/ c.t # "object"
           \/ "relevant" \notin DOMAIN c.obj
           \/ SaysRelevant /\ Get(c.obj, "crime", "") \notin CrimeType

Skipped(update) ==
    /\ "skip_processing" \in DOMAIN update /\ update.skip_processing
    /\ IsNone(update.incident_data)

\* C9: plan_node never raises for a malformed classifier response or a failed
\* classifier invocation: it returns skip_processing = True, no incident and
\* the failure reason.
C9_PlanNeverRaises ==
    (Planned /\ (~probe.inv.ok \/ PlanMalformed)) =>
        /\ probe.out.exc = ""
        /\ Skipped(probe.out.update)
        /\ probe.out.update.plan_reason # <<>>

\* C10: every incident plan_node returns has one of the six crimes; a response
\* that says relevant with any other crime, or with none, gives no incident
\* and skip_processing = True.
C10_CrimeIsEnumerated ==
    Planned =>
        /\ (probe.out.exc = "" /\ ~IsNone(probe.out.update.incident_data)) =>
               probe.out.update.incident_data.crime \in CrimeType
        /\ (SaysRelevant
               /\ Get(probe.inv.content.obj, "crime", "") \notin CrimeType) =>
               (probe.out.exc = "" /\ Skipped(probe.out.update))

\* C10 witness: the classifier said relevant with the crime "arson" and
\* plan_node answered with a skip.
C10_Witness ==
    /\ Planned /\ SaysRelevant
    /\ Get(probe.inv.content.obj, "crime", "") = "arson"
    /\ probe.out.exc = "" /\ Skipped(probe.out.update)

-----------------------------------------------------------------------------
(* The retry wrappers: utils/aws.py execute_with_retry and the two         *)
(* _execute_with_retry copies of tools/push_to_dynamodb.py and             *)
(* tools/send_email.py.  The wrapped operation is given by the outcomes of *)
(* its successive calls: outs[k] is what the k-th call does, one of        *)
(*   "ok"           it returns                                             *)
(*   "transient"    it raises a ClientError with another error code        *)
(*   "unavailable"  it raises a ClientError with code ServiceUnavailable   *)
(*   "other"        it raises an exception that is no ClientError          *)
(* A value or an exception is named by the call it came from.              *)

\* longest sequence of outcomes the operation is given
MaxOutcomes == 4

OutcomeKinds == {"ok", "transient", "unavailable", "other"}

MAX_RETRIES == 3

RETRY_BASE_DELAY_SECONDS == One

RECURSIVE Pow2(_)
Pow2(n) == IF n <= 0 THEN 1 ELSE 2 * Pow2(n - 1)

\* delay = RETRY_BASE_DELAY_SECONDS * (2 ** (attempt - 1))
RetryDelay(attempt) == RETRY_BASE_DELAY_SECONDS * Pow2(attempt - 1)

\* what a wrapper call comes to: status is "returned" (the value of call
\* `from`), "none" (the sentinel None) or "raised" (the exception of call
\* `from`); calls counts the calls of the operation, delays lists the sleeps
RetryResult(status, from, ncalls, delays) ==
    [status |-> status, from |-> from, calls |-> ncalls, delays |-> delays]

\* a for loop that runs once more
RetryAttemptsOneMore == 1..(MAX_RETRIES + 1)

\* the range of the wrappers' for loop
RetryAttempts == 1..MAX_RETRIES

\* the for loop from `attempt` on; raise_on_unavailable tells the copies apart
RECURSIVE RetryLoop(_, _, _, _)
RetryLoop(outs, raise_on_unavailable, attempt, delays) ==
    IF attempt \notin RetryAttempts
    THEN RetryResult("raised", attempt - 1, attempt - 1, delays)
    ELSE CASE outs[attempt] = "ok" ->
                  RetryResult("returned", attempt, attempt, delays)
           [] outs[attempt] = "unavailable" ->
                  RetryResult(IF raise_on_unavailable THEN "raised" ELSE "none",
                              attempt, attempt, delays)
           [] outs[attempt] = "transient" ->
                  RetryLoop(outs, raise_on_unavailable, attempt + 1,
                            Append(delays, RetryDelay(attempt)))
           [] OTHER -> RetryResult("raised", attempt, attempt, delays)

\* utils/aws.py
execute_with_retry(outs, raise_on_service_unavailable) ==
    RetryLoop(outs, raise_on_service_unavailable, 1, <<>>)

\* tools/push_to_dynamodb.py: ServiceUnavailable is raised at once
dynamodb_execute_with_retry(outs) == RetryLoop(outs, TRUE, 1, <<>>)

\* a copy that raises ServiceUnavailable as the DynamoDB copy does
ses_execute_with_retry_raising(outs) == RetryLoop(outs, TRUE, 1, <<>>)

\* tools/send_email.py: ServiceUnavailable returns None
ses_execute_with_retry(outs) == RetryLoop(outs, FALSE, 1, <<>>)

OutcomeSeqs == [1..MaxOutcomes -> OutcomeKinds]

-----------------------------------------------------------------------------
(* tools/push_to_dynamodb.py.  The table is a Python-dict-like function    *)
(* from the partition keys that exist to the list of incident entries of   *)
(* the partition.  A string is an atom; Chars gives its characters as far  *)
(* as the ':' separator of the key string is concerned.                    *)

Chars(s) == CASE s = "Hebron:theft" -> <<"Hebron", ":", "theft">>
              [] s = "Hebron:theft:1769860800" ->
                     <<"Hebron", ":", "theft", ":", "1769860800">>
              [] s = "Hebron:" -> <<"Hebron", ":", "">>
              [] OTHER -> <<s>>

\* a key string without the timestamp
KeyStringNoTime(incident) ==
    Chars(incident.location) \o <<":">> \o Chars(incident.crime)

\* f"{incident['location']}:{incident['crime']}:{incident['created_at']}"
KeyString(incident) ==
    Chars(incident.location) \o <<":">> \o Chars(incident.crime) \o <<":">>
        \o <<ToString(incident.created_at)>>

\* hashlib.sha256(...).hexdigest(): equal digests for equal key strings,
\* and no collision between the few key strings of a run
generate_incident_id(incident) == <<"sha256">> \o KeyString(incident)

SecondsPerDay == 24 * 60 * 60

\* datetime.fromtimestamp(unix_timestamp, tz=UTC).strftime("%Y-%m"): the
\* proleptic Gregorian year and month of the day the second falls in
extract_year_month(unix_timestamp) ==
    LET days == IF unix_timestamp >= 0
                THEN unix_timestamp \div SecondsPerDay
                ELSE 0 - ((SecondsPerDay - 1 - unix_timestamp) \div SecondsPerDay)
        z    == days + 719468
        era  == z \div 146097
        doe  == z - era * 146097
        yoe  == (doe - doe \div 1460 + doe \div 36524 - doe \div 146096) \div 365
        doy  == doe - (365 * yoe + yoe \div 4 - yoe \div 100)
        mp   == (5 * doy + 2) \div 153
        m    == IF mp < 10 THEN mp + 3 ELSE mp - 9
        y    == yoe + era * 400 + (IF m <= 2 THEN 1 ELSE 0)
    IN  <<y, m>>

IncidentKeys == {"location", "crime", "created_at"}

IncidentEntry(incident) ==
    [incident_id |-> generate_incident_id(incident),
     location |-> incident.location,
     crime |-> incident.crime,
     created_at |-> incident.created_at]

\* one call of push_to_dynamodb: where it is ("read" before get_item,
\* "update" / "put" before the write, "returned", "raised"), what it read,
\* what it returned or raised, and how often it called each table operation
PushCall(at, incident) ==
    [at |-> at, incident |-> incident, result |-> <<>>, exc |-> "",
     gets |-> 0, puts |-> 0, updates |-> 0]

PushRaised(call, exc) == [call EXCEPT !.at = "raised", !.exc = exc]

\* lines 147-156: the key, the id and the table resource
push_begin(environ, incident) ==
    IF ~(IncidentKeys \subseteq DOMAIN incident)
           \/ "DYNAMODB_TABLE_NAME" \notin DOMAIN environ
    THEN PushRaised(PushCall("read", incident), "KeyError")
    ELSE PushCall("read", incident)

\* a duplicate check that finds nothing
NoExistingIds(item) == {}

ExistingIds(item) == {item[i].incident_id : i \in DOMAIN item}

\* the return value of the other paths
PlainResult(incident) == [ok |-> TRUE]

DuplicateResult(incident) ==
    [ok |-> TRUE, year_month |-> extract_year_month(incident.created_at),
     incident_id |-> generate_incident_id(incident), duplicate |-> TRUE]

\* lines 166-189: get_item under the retry wrapper and the duplicate check
push_read(tbl, call, outs) ==
    LET r  == dynamodb_execute_with_retry(outs)
        ym == extract_year_month(call.incident.created_at)
        c  == [call EXCEPT !.gets = r.calls]
    IN  IF r.status = "raised"
        THEN PushRaised(c, IF outs[r.from] = "other" THEN "Exception"
                           ELSE "ClientError")
        ELSE IF ym \in DOMAIN tbl
             THEN IF generate_incident_id(call.incident)
                         \in ExistingIds(tbl[ym])
                  THEN [c EXCEPT !.at = "returned",
                                 !.result = DuplicateResult(call.incident)]
                  ELSE [c EXCEPT !.at = "update"]
             ELSE [c EXCEPT !.at = "put"]

\* update_item: SET incidents = list_append(incidents, :new_incident)
UpdateItem(tbl, ym, incident_entry) ==
    IF ym \in DOMAIN tbl
    THEN Merge(tbl, ym :> Append(tbl[ym], incident_entry))
    ELSE tbl

\* put_item replaces the whole item of the partition key
PutItem(tbl, ym, incident_entry) == Merge(tbl, ym :> <<incident_entry>>)

\* lines 191-224: the write under the retry wrapper and the return
push_write(tbl, call, outs) ==
    LET r     == dynamodb_execute_with_retry(outs)
        ym    == extract_year_month(call.incident.created_at)
        e     == IncidentEntry(call.incident)
        c     == IF call.at = "update" THEN [call EXCEPT !.updates = r.calls]
                 ELSE [call EXCEPT !.puts = r.calls]
    IN  IF r.status = "raised"
        THEN [table |-> tbl,
              call |-> PushRaised(c, IF outs[r.from] = "other"
                                     THEN "Exception" ELSE "ClientError")]
        ELSE [table |-> IF call.at = "update" THEN UpdateItem(tbl, ym, e)
                        ELSE PutItem(tbl, ym, e),
              call |-> [c EXCEPT !.at = "returned",
                                 !.result = [ok |-> TRUE]]]

\* the whole call, when nothing else touches the table meanwhile
push_to_dynamodb(tbl, environ, incident, outsRead, outsWrite) ==
    LET b == push_begin(environ, incident)
        c == IF b.at = "raised" THEN b ELSE push_read(tbl, b, outsRead)
    IN  IF c.at \in {"update", "put"} THEN push_write(tbl, c, outsWrite)
        ELSE [table |-> tbl, call |-> c]

-----------------------------------------------------------------------------
(* tools/send_email.py *)

\* what a tool call comes to: the exception it raised ("" if none), the
\* dict it returned, and the calls it made of the wrapped SES operation
ToolOutcome(exc, result, sends) ==
    [exc |-> exc, result |-> result, sends |-> sends]

NotConfiguredError ==
    <<"SES_SENDER_EMAIL or SES_RECIPIENT_EMAIL not configured">>

UnavailableError == <<"SES service unavailable">>

\* f"Failed to send email after {MAX_RETRIES} retries: {e}"
RetriesError(e) ==
    <<"Failed to send email after ", ToString(MAX_RETRIES), " retries: ", e>>

SendOutcome(outs, response, r, on_client_error) ==
    CASE r.status = "none" ->
             ToolOutcome("", [alert_complete |-> TRUE,
                              error |-> UnavailableError], r.calls)
      [] r.status = "returned" ->
             ToolOutcome("", [alert_complete |-> TRUE,
                              message_id |->
                                  Get(response, "MessageId", "unknown")],
                         r.calls)
      [] r.status = "raised" /\ outs[r.from] = "other" ->
             ToolOutcome("Exception", <<>>, r.calls)
      [] OTHER -> on_client_error

\* send_email with the except ClientError clause left out
send_email_uncaught(environ, incident, response, outs) ==
    IF Get(environ, "SES_SENDER_EMAIL", "") = ""
           \/ Get(environ, "SES_RECIPIENT_EMAIL", "") = ""
    THEN ToolOutcome("", [alert_complete |-> TRUE,
                          error |-> NotConfiguredError], 0)
    ELSE IF ~(IncidentKeys \subseteq DOMAIN incident)
    THEN ToolOutcome("KeyError", <<>>, 0)
    ELSE LET r == ses_execute_with_retry(outs)
         IN  SendOutcome(outs, response, r,
                         ToolOutcome("ClientError", <<>>, r.calls))

\* response is the dict a successful ses_client.send_email returns
send_email(environ, incident, response, outs) ==
    IF Get(environ, "SES_SENDER_EMAIL", "") = ""
           \/ Get(environ, "SES_RECIPIENT_EMAIL", "") = ""
    THEN ToolOutcome("", [alert_complete |-> TRUE,
                          error |-> NotConfiguredError], 0)
    ELSE IF ~(IncidentKeys \subseteq DOMAIN incident)
    THEN ToolOutcome("KeyError", <<>>, 0)
    ELSE LET r == ses_execute_with_retry(outs)
         IN  SendOutcome(outs, response, r,
                         ToolOutcome("", [alert_complete |-> TRUE,
                                          error |-> RetriesError(
                                              <<"ClientError", r.from>>)],
                                     r.calls))

-----------------------------------------------------------------------------
(* Single calls of the retry wrappers and of send_email (ToolSpec): the    *)
(* probe holds the arguments, the outcomes of the wrapped operation, and   *)
(* after the call what came back.                                          *)

\* Unix timestamps in seconds: 2026-01-31 12:00 UTC and 2026-02-01 12:00 UTC
T_Jan == 1769860800
T_Feb == 1769947200

SesEnvirons ==
    { [SES_SENDER_EMAIL |-> "from@x", SES_RECIPIENT_EMAIL |-> "to@x"],
      [SES_SENDER_EMAIL |-> "from@x"],
      [SES_SENDER_EMAIL |-> "", SES_RECIPIENT_EMAIL |-> "to@x"] }

ToolIncidents ==
    { [location |-> "Hebron", crime |-> "stabbing", created_at |-> T_Jan],
      [location |-> "Hebron", crime |-> "stabbing"] }

SesResponses == { [MessageId |-> "m-1"], <<>> }

RetryProbes == {"execute_with_retry", "dynamodb._execute_with_retry",
                "ses._execute_with_retry"}

ToolInit ==
    /\ st = <<>>
    /\ pc = "idle"
    /\ calls = NoCalls
    /\ llm = NoCalls
    /\ fails = NoCalls
    /\ raised = NotRaised
    /\ entry = <<>>
    /\ db = NoDb
    /\ wk = NoWork
    /\ probe \in
          {Probe("execute_with_retry",
                 [raise_on_service_unavailable |-> b], outs) :
                 b \in BOOLEAN, outs \in OutcomeSeqs}
              \cup {Probe(fn, <<>>, outs) :
                       fn \in {"dynamodb._execute_with_retry",
                               "ses._execute_with_retry"},
                       outs \in OutcomeSeqs}
              \cup {Probe("send_email",
                          [environ |-> e, incident |-> i, response |-> r],
                          outs) :
                       e \in SesEnvirons, i \in ToolIncidents,
                       r \in SesResponses, outs \in OutcomeSeqs}

CallAwsRetry ==
    Call("execute_with_retry",
         execute_with_retry(probe.inv,
                            probe.state.raise_on_service_unavailable))

CallDynamoRetry ==
    Call("dynamodb._execute_with_retry",
         dynamodb_execute_with_retry(probe.inv))

CallSesRetry ==
    Call("ses._execute_with_retry", ses_execute_with_retry(probe.inv))

CallSendEmail ==
    Call("send_email",
         send_email(probe.state.environ, probe.state.incident,
                    probe.state.response, probe.inv))

ToolNext == CallAwsRetry \/ CallDynamoRetry \/ CallSesRetry \/ CallSendEmail

ToolSpec == ToolInit /\ [][ToolNext]_vars

-----------------------------------------------------------------------------
(* Properties of the retry wrappers and of send_email (ToolSpec) *)

Retried == probe.fn \in RetryProbes /\ probe.done

\* the first k calls of the operation all raise a transient ClientError
AllTransient(outs, k) == \A j \in 1..k : outs[j] = "transient"

\* the number of transient failures among the first k calls
RECURSIVE TransientCount(_, _)
TransientCount(outs, k) ==
    IF k = 0 THEN 0
    ELSE TransientCount(outs, k - 1)
             + (IF outs[k] = "transient" THEN 1 ELSE 0)

\* C18: whatever the successive calls of the wrapped operation do, each of
\* the three retry wrappers calls it at most 3 times; it returns the value of
\* the first successful call and makes no further call; after 3 transient
\* ClientErrors in a row it raises the error of the third call; and it
\* sleeps base delay * 2^(k-1) after the failed attempt k.
C18_RetryBounded ==
    Retried =>
        /\ probe.out.calls <= 3
        /\ \A k \in 1..3 :
               (probe.inv[k] = "ok" /\ AllTransient(probe.inv, k - 1)) =>
                   /\ probe.out.status = "returned"
                   /\ probe.out.from = k
                   /\ probe.out.calls = k
        /\ AllTransient(probe.inv, 3) =>
               /\ probe.out.status = "raised"
               /\ probe.out.from = 3
               /\ probe.out.calls = 3
        /\ Len(probe.out.delays)
               = TransientCount(probe.inv, probe.out.calls)
        /\ \A k \in DOMAIN probe.out.delays :
               probe.out.delays[k] = One * Pow2(k - 1)

C18_Witness ==
    /\ Retried
    /\ probe.inv[1] = "transient" /\ probe.inv[2] = "transient"
    /\ probe.inv[3] = "ok"
    /\ probe.out.status = "returned"
    /\ probe.out.delays = <<One, 2 * One>>

\* C19: when a call of the operation fails with ServiceUnavailable, as the
\* first failure or after transient ones, the wrapper does not call the
\* operation again: the DynamoDB wrapper raises that very error, the SES
\* wrapper returns None, and utils/aws.py does the one or the other as its
\* raise_on_service_unavailable flag says.
C19_UnavailableStopsRetry ==
    Retried =>
        \A k \in 1..3 :
            (probe.inv[k] = "unavailable" /\ AllTransient(probe.inv, k - 1))
                => /\ probe.out.calls = k
                   /\ probe.out.from = k
                   /\ probe.fn = "dynamodb._execute_with_retry"
                          => probe.out.status = "raised"
                   /\ probe.fn = "ses._execute_with_retry"
                          => probe.out.status = "none"
                   /\ probe.fn = "execute_with_retry"
                          => probe.out.status =
                                 IF probe.state.raise_on_service_unavailable
                                 THEN "raised" ELSE "none"

C19_Witness ==
    /\ probe.fn = "ses._execute_with_retry" /\ probe.done
    /\ probe.inv[1] = "transient" /\ probe.inv[2] = "unavailable"
    /\ probe.inv[3] = "ok"
    /\ probe.out.status = "none"
    /\ probe.out.calls = 2

Sent == probe.fn = "send_email" /\ probe.done

\* the send of the probe reaches SES: both addresses are configured and the
\* incident has the fields the message is built from
SendAttempted ==
    /\ Get(probe.state.environ, "SES_SENDER_EMAIL", "") # ""
    /\ Get(probe.state.environ, "SES_RECIPIENT_EMAIL", "") # ""
    /\ IncidentKeys \subseteq DOMAIN probe.state.incident

\* the send fails: three transient ClientErrors, or ServiceUnavailable
SendFails ==
    \/ AllTransient(probe.inv, 3)
    \/ \E k \in 1..3 :
           probe.inv[k] = "unavailable" /\ AllTransient(probe.inv, k - 1)

\* C20: send_email does not raise when sending fails: after 3 transient
\* failures, and on ServiceUnavailable, it returns a dict with an error and
\* without a message_id; and whenever it returns a message_id, the last call
\* of the SES operation succeeded.
C20_SendFailureAbsorbed ==
    Sent =>
        /\ (SendAttempted /\ SendFails) =>
               /\ probe.out.exc = ""
               /\ "error" \in DOMAIN probe.out.result
               /\ "message_id" \notin DOMAIN probe.out.result
        /\ "message_id" \in DOMAIN probe.out.result =>
               /\ probe.out.sends \in 1..3
               /\ probe.inv[probe.out.sends] = "ok"

C20_Witness ==
    /\ Sent /\ SendAttempted
    /\ AllTransient(probe.inv, 3)
    /\ probe.out.exc = ""
    /\ probe.out.sends = 3
    /\ "error" \in DOMAIN probe.out.result

-----------------------------------------------------------------------------
(* Two callers of push_to_dynamodb on one table (DbSpec).  Each caller     *)
(* makes one call; a step is one table operation under its retry wrapper,  *)
(* and the steps of the two calls interleave in any order.                 *)

Callers == {1, 2}

Other(p) == CHOOSE q \in Callers : q # p

DbIncidents ==
    { [location |-> "Hebron", crime |-> "stabbing", created_at |-> T_Jan],
      [location |-> "Hebron", crime |-> "theft", created_at |-> T_Jan],
      [location |-> "Hebron", crime |-> "stabbing", created_at |-> T_Feb] }

StoredBefore ==
    [location |-> "Jerusalem", crime |-> "arson", created_at |-> T_Jan]

\* no partition yet, or the January partition as earlier calls left it
InitialTables ==
    { <<>>,
      PutItem(<<>>, extract_year_month(T_Jan), IncidentEntry(StoredBefore)) }

DynamoEnvirons == { [DYNAMODB_TABLE_NAME |-> "incidents"], <<>> }

\* what the calls of one table operation under the wrapper can do
TableOutcomeSeqs == [RetryAttempts -> OutcomeKinds]

\* order lists the callers as they entered push_to_dynamodb; overlap tells
\* whether a call was entered while the other one was between its read and
\* its write; before is the table as it was at the start
DbInit ==
    /\ st = <<>>
    /\ pc = "idle"
    /\ calls = NoCalls
    /\ llm = NoCalls
    /\ fails = NoCalls
    /\ raised = NotRaised
    /\ entry = <<>>
    /\ probe = NoProbe
    /\ wk = NoWork
    /\ \E tbl \in InitialTables, e \in DynamoEnvirons,
          inc \in [Callers -> DbIncidents] :
          db = [table |-> tbl, environ |-> e,
                push |-> [p \in Callers |-> PushCall("idle", inc[p])],
                order |-> <<>>, overlap |-> FALSE, before |-> tbl]

DbUnchanged == UNCHANGED <<st, pc, calls, llm, fails, raised, entry, probe, wk>>

\* lines 147-189: the caller enters the call and reads the partition
PushRead(p) ==
    /\ db.push[p].at = "idle"
    /\ \E outs \in TableOutcomeSeqs :
          LET b == push_begin(db.environ, db.push[p].incident)
              c == IF b.at = "raised" THEN b
                   ELSE push_read(db.table, b, outs)
          IN  db' = [db EXCEPT
                        !.push[p] = c,
                        !.order = Append(@, p),
                        !.overlap =
                            @ \/ db.push[Other(p)].at \in {"update", "put"}]
    /\ DbUnchanged

\* lines 191-224: the caller writes and returns
PushWrite(p) ==
    /\ db.push[p].at \in {"update", "put"}
    /\ \E outs \in TableOutcomeSeqs :
          LET w == push_write(db.table, db.push[p], outs)
          IN  db' = [db EXCEPT !.table = w.table, !.push[p] = w.call]
    /\ DbUnchanged

DbNext == \E p \in Callers : PushRead(p) \/ PushWrite(p)

DbSpec == DbInit /\ [][DbNext]_vars

-----------------------------------------------------------------------------
(* Properties of push_to_dynamodb (DbSpec) *)

BothReturned == \A p \in Callers : db.push[p].at = "returned"

SameIncident == db.push[1].incident = db.push[2].incident

MonthOf(p) == extract_year_month(db.push[p].incident.created_at)

IdOf(p) == generate_incident_id(db.push[p].incident)

\* how many entries of the partition have the id
EntriesWith(tbl, ym, id) ==
    IF ym \in DOMAIN tbl
    THEN Cardinality({i \in DOMAIN tbl[ym] : tbl[ym][i].incident_id = id})
    ELSE 0

ReportedDuplicate(p) == Get(db.push[p].result, "duplicate", FALSE)

\* C15: when two calls with the identical incident follow one another and
\* both return, the month partition holds exactly one entry with the
\* incident's id, and the second call returned duplicate = True and called
\* neither put_item nor update_item; whether or not the partition existed
\* before the first call.
C15_SecondPushIsDuplicate ==
    (BothReturned /\ SameIncident /\ ~db.overlap) =>
        /\ EntriesWith(db.table, MonthOf(1), IdOf(1)) = 1
        /\ ReportedDuplicate(db.order[2])
        /\ db.push[db.order[2]].puts = 0
        /\ db.push[db.order[2]].updates = 0

C15_Witness ==
    /\ BothReturned /\ SameIncident /\ ~db.overlap
    /\ db.before = <<>>
    /\ db.push[db.order[1]].puts = 1
    /\ ReportedDuplicate(db.order[2])

\* C16: once two calls for two distinct incidents of the same month have
\* both returned, however their table operations interleaved, both
\* incidents are in the partition.
C16_NoLostUpdate ==
    (BothReturned /\ ~SameIncident /\ MonthOf(1) = MonthOf(2)) =>
        \A p \in Callers : EntriesWith(db.table, MonthOf(p), IdOf(p)) >= 1

\* the state of the race: both calls for the identical incident returned,
\* neither reported a duplicate, and the partition holds the id twice
DoubleEntry ==
    /\ BothReturned /\ SameIncident
    /\ \A p \in Callers : ~ReportedDuplicate(p)
    /\ EntriesWith(db.table, MonthOf(1), IdOf(1)) >= 2

\* C17: two calls for the identical incident leave the id twice in the
\* partition, with neither call reporting a duplicate, only if one call was
\* entered while the other was between its read and its write; with
\* interleaving, that state is reached on a partition that existed before.
C17_DoubleEntryOnlyWhenInterleaved == DoubleEntry => db.overlap

C17_Witness ==
    /\ DoubleEntry
    /\ db.overlap
    /\ MonthOf(1) \in DOMAIN db.before
    /\ \A p \in Callers : db.push[p].updates >= 1

-----------------------------------------------------------------------------
(* Properties of the edge out of plan (Spec) *)

PlanReturned == calls.plan > 0 /\ raised.node # "plan"

\* C11: once plan has returned, a run whose plan result has skip_processing
\* true is at the terminal state and has not entered the worker, and a run
\* whose plan result has skip_processing false or absent is in the worker
\* or has been there.
C11_SkipBypassesWorker ==
    PlanReturned =>
        IF Get(st, "skip_processing", FALSE)
        THEN pc = "__end__" /\ calls.worker = 0
        ELSE pc = "worker" \/ calls.worker > 0

-----------------------------------------------------------------------------
(* nodes/worker.py: the tool loop of worker_node (WorkerSpec).  The model  *)
(* the worker invokes decides which tools are called, with which arguments *)
(* and in which order; a response is a failure or a list of tool calls.    *)

\* most tool calls the model requests in one run
MaxToolCalls == 3

\* largest worker_max_iterations a state sets
MaxWorkerIter == 2

WorkerDefaultMaxIterations == 10

\* a failure reported like a run without actions
WorkerFailedOutputNone == <<"No actions taken">>

WorkerFailedOutput == <<"Worker failed: LLM error">>

RECURSIVE Join(_, _)
Join(names, sep) ==
    IF names = <<>> THEN <<>>
    ELSE IF Len(names) = 1 THEN names
    ELSE <<Head(names), sep>> \o Join(Tail(names), sep)

\* lines 246-257
WorkerSummary(actions_taken) ==
    [worker_output |-> IF actions_taken # <<>>
                       THEN <<"Executed: ">> \o Join(actions_taken, ", ")
                       ELSE <<"No actions taken">>,
     should_end |-> TRUE]

\* the incident a tool executor is given: lines 212-216 and 221-225
ArgsIncident(tool_args) ==
    [location |-> Get(tool_args, "location", ""),
     crime |-> Get(tool_args, "crime", ""),
     created_at |-> Get(tool_args, "created_at", 0)]

\* an except clause that lets everything but a ClientError through
CaughtOnlyClientError(exc) == exc = "ClientError"

\* except Exception (line 232): every exception the executors raise
CaughtByWorker(exc) == exc \in {"KeyError", "ClientError", "Exception"}

\* one pass of the body of `for tool_call in tool_calls`: the exception the
\* executor raised, whether the name went to actions_taken, and the table
ToolRun(exc, appended, tbl) == [exc |-> exc, appended |-> appended, table |-> tbl]

execute_send_email(tbl, environ, tool_call, response, outs) ==
    LET o == send_email(environ, ArgsIncident(Get(tool_call, "args", <<>>)),
                        response, outs)
    IN  ToolRun(o.exc, o.exc = "", tbl)

execute_push_to_dynamodb(tbl, environ, tool_call, outsRead, outsWrite) ==
    LET r == push_to_dynamodb(tbl, environ,
                              ArgsIncident(Get(tool_call, "args", <<>>)),
                              outsRead, outsWrite)
    IN  ToolRun(r.call.exc, r.call.exc = "", r.table)

\* the names of WORKER_TOOLS
WorkerTools == {"send_email", "push_to_dynamodb"}

\* what the wrapped AWS operations do during a worker run
WorkerOutcomeSeqs ==
    { [k \in RetryAttempts |-> "ok"],
      [k \in RetryAttempts |-> "transient"],
      [k \in RetryAttempts |-> IF k = 1 THEN "transient" ELSE "ok"],
      [k \in RetryAttempts |-> "unavailable"],
      [k \in RetryAttempts |-> "other"] }

WorkerEnvirons ==
    { [SES_SENDER_EMAIL |-> "from@x", SES_RECIPIENT_EMAIL |-> "to@x",
       DYNAMODB_TABLE_NAME |-> "incidents"],
      [SES_SENDER_EMAIL |-> "from@x", SES_RECIPIENT_EMAIL |-> "to@x"],
      [SES_RECIPIENT_EMAIL |-> "to@x", DYNAMODB_TABLE_NAME |-> "incidents"] }

WorkerIncident ==
    [location |-> "Hebron", crime |-> "stabbing", created_at |-> T_Jan]

\* states the worker is entered with: a skip, an incident as plan_node
\* builds it, and an incident that carries created_at
WorkerStates ==
    {Restrict(o, K) :
        o \in [incident_data :
                   {None, BuildIncidentData("Hebron", "stabbing"),
                    WorkerIncident},
               requires_email_alert : BOOLEAN,
               plan_reason : {<<"Event not relevant">>},
               worker_max_iterations : 1..MaxWorkerIter],
        K \in { {"incident_data", "requires_email_alert", "plan_reason",
                 "worker_max_iterations"},
                {"incident_data", "requires_email_alert"} }}

\* the tool calls the model can ask for
ToolCalls ==
    { [name |-> "send_email", args |-> WorkerIncident, id |-> "c1"],
      [name |-> "push_to_dynamodb", args |-> WorkerIncident, id |-> "c2"],
      [name |-> "push_to_dynamodb", args |-> [location |-> "Jerusalem"],
       id |-> "c3"],
      [name |-> "delete_table", args |-> <<>>, id |-> "c4"] }

\* a response of the model: ok is false when ainvoke raised
WorkerResponse(ok, tool_calls) == [ok |-> ok, tool_calls |-> tool_calls]

WorkerResponses(room) ==
    {WorkerResponse(FALSE, <<>>), WorkerResponse(TRUE, <<>>)}
        \cup {WorkerResponse(TRUE, <<c>>) : c \in {x \in ToolCalls : room >= 1}}
        \cup {WorkerResponse(TRUE, <<c, d>>) :
                 c \in {x \in ToolCalls : room >= 2}, d \in ToolCalls}

\* a model that asks for a tool in every response: after MaxToolCalls
\* requests for a tool that does not exist it goes on asking for it
RepeatedResponses(requested) ==
    IF /\ Len(requested) >= MaxToolCalls
       /\ \A i \in DOMAIN requested : requested[i] \notin WorkerTools
    THEN {WorkerResponse(TRUE, <<c>>) :
              c \in {x \in ToolCalls : x.name \notin WorkerTools}}
    ELSE {}

\* the locals of the loop: pending are the tool calls of the last response
\* not yet executed; requested lists the names of all tool calls the model
\* asked for; log lists the tool calls executed
NewWork ==
    [iteration |-> 0, pending |-> <<>>, actions_taken |-> <<>>,
     requested |-> <<>>, log |-> <<>>]

WorkerInit ==
    /\ st \in WorkerStates
    /\ pc = "worker"
    /\ calls = NoCalls
    /\ llm = NoCalls
    /\ fails = NoCalls
    /\ raised = NotRaised
    /\ entry = <<>>
    /\ probe = NoProbe
    /\ \E tbl \in InitialTables, e \in WorkerEnvirons :
          db = [table |-> tbl, environ |-> e]
    /\ wk = NewWork

\* a loop that runs once more than worker_max_iterations
WorkerMaxIterationsPlusOne ==
    Get(st, "worker_max_iterations", WorkerDefaultMaxIterations) + 1

WorkerMaxIterations ==
    Get(st, "worker_max_iterations", WorkerDefaultMaxIterations)

WorkerReturns(update) ==
    /\ st' = Merge(st, update)
    /\ pc' = "__end__"

\* lines 180-201: one model invocation of the loop
WorkerInvoke ==
    /\ pc = "loop"
    /\ wk.pending = <<>>
    /\ wk.iteration < WorkerMaxIterations
    /\ \E r \in WorkerResponses(MaxToolCalls - Len(wk.requested))
                  \cup RepeatedResponses(wk.requested) :
          /\ llm' = [llm EXCEPT !.worker = @ + 1]
          /\ fails' = [fails EXCEPT !.worker = @ + (IF r.ok THEN 0 ELSE 1)]
          /\ IF ~r.ok
             THEN /\ WorkerReturns([worker_output |-> WorkerFailedOutput,
                                    should_end |-> TRUE])
                  /\ wk' = wk
             ELSE IF r.tool_calls = <<>>
             THEN /\ WorkerReturns(WorkerSummary(wk.actions_taken))
                  /\ wk' = wk
             ELSE /\ wk' = [wk EXCEPT
                               !.iteration = @ + 1,
                               !.pending = r.tool_calls,
                               !.requested =
                                   @ \o [i \in DOMAIN r.tool_calls |->
                                            r.tool_calls[i].name]]
                  /\ UNCHANGED <<st, pc>>
    /\ UNCHANGED <<calls, raised, entry, probe, db>>

\* the tool call was executed: lines 232-244
Executed(tool_call, run) ==
    /\ db' = [db EXCEPT !.table = run.table]
    /\ IF run.exc # "" /\ ~CaughtByWorker(run.exc)
       THEN /\ pc' = "raised"
            /\ raised' = [node |-> "worker", exc |-> run.exc]
            /\ wk' = [wk EXCEPT
                         !.log = Append(@, [name |-> tool_call.name,
                                            args |-> tool_call.args,
                                            exc |-> run.exc,
                                            iteration |-> wk.iteration])]
       ELSE /\ wk' = [wk EXCEPT
                         !.pending = Tail(@),
                         !.actions_taken =
                             IF run.appended
                             THEN Append(@, tool_call.name) ELSE @,
                         !.log = Append(@, [name |-> tool_call.name,
                                            args |-> tool_call.args,
                                            exc |-> run.exc,
                                            iteration |-> wk.iteration])]
            /\ UNCHANGED <<pc, raised>>

\* lines 203-244: the next tool call of the response
WorkerTool ==
    /\ pc = "loop"
    /\ wk.pending # <<>>
    /\ LET tool_call == Head(wk.pending)
       IN  \/ /\ tool_call.name = "send_email"
              /\ \E outs \in WorkerOutcomeSeqs :
                    Executed(tool_call,
                             execute_send_email(db.table, db.environ,
                                 tool_call, [MessageId |-> "m-1"], outs))
           \/ /\ tool_call.name = "push_to_dynamodb"
              /\ \E outsRead \in WorkerOutcomeSeqs,
                    outsWrite \in WorkerOutcomeSeqs :
                    Executed(tool_call,
                             execute_push_to_dynamodb(db.table, db.environ,
                                 tool_call, outsRead, outsWrite))
           \/ /\ tool_call.name \notin WorkerTools
              /\ Executed(tool_call, ToolRun("", FALSE, db.table))
    /\ UNCHANGED <<st, calls, llm, fails, entry, probe>>

\* lines 243-257: the for loop ran out of iterations
WorkerExhausted ==
    /\ pc = "loop"
    /\ wk.pending = <<>>
    /\ wk.iteration >= WorkerMaxIterations
    /\ WorkerReturns(WorkerSummary(wk.actions_taken))
    /\ UNCHANGED <<calls, llm, fails, raised, entry, probe, db, wk>>

WorkerNext == Worker \/ WorkerInvoke \/ WorkerTool \/ WorkerExhausted

WorkerSpec == WorkerInit /\ [][WorkerNext]_vars

-----------------------------------------------------------------------------
(* Properties of the worker's tool loop (WorkerSpec) *)

\* the worker ran its loop for the incident and has returned
WorkerDone == pc = "__end__" /\ ~IsNone(Get(st, "incident_data", None))

Attempts(name) == {i \in DOMAIN wk.log : wk.log[i].name = name}

\* C12: a worker run for an incident with requires_email_alert = true has
\* attempted send_email and push_to_dynamodb by the time it returns, and
\* every attempt of send_email came before every attempt of
\* push_to_dynamodb.
C12_AlertBeforePersist ==
    (WorkerDone /\ Get(st, "requires_email_alert", FALSE)) =>
        /\ Attempts("send_email") # {}
        /\ Attempts("push_to_dynamodb") # {}
        /\ \A i \in Attempts("send_email"), j \in Attempts("push_to_dynamodb") :
               i < j

\* C13: a worker run for a relevant incident has executed exactly the
\* planned actions, each once, when it returns: push_to_dynamodb once,
\* send_email once if requires_email_alert is true and not at all if it is
\* false, and nothing else.
C13_ExactlyThePlan ==
    WorkerDone =>
        /\ Cardinality(Attempts("push_to_dynamodb")) = 1
        /\ Cardinality(Attempts("send_email"))
               = IF Get(st, "requires_email_alert", FALSE) THEN 1 ELSE 0
        /\ \A i \in DOMAIN wk.log : wk.log[i].name \in WorkerTools

LogNames == [i \in DOMAIN wk.log |-> wk.log[i].name]

PendingNames == [i \in DOMAIN wk.pending |-> wk.pending[i].name]

\* the tool call did not succeed: its executor raised, or no tool has the name
FailedAttempt(i) == wk.log[i].exc # "" \/ wk.log[i].name \notin WorkerTools

\* C14: a tool call that fails does not end the worker.  Whatever failed
\* before, the tool calls the model asked for are executed one after the
\* other in the order asked: those executed followed by those still pending
\* are those requested, nothing is pending when the worker returns, the
\* worker never raises inside its loop, and it returns a worker_output.
C14_FailureDoesNotAbort ==
    /\ LogNames \o PendingNames = wk.requested
    /\ wk.log # <<>> => raised.node # "worker"
    /\ (pc = "__end__" /\ wk.log # <<>>) =>
           /\ wk.pending = <<>>
           /\ "worker_output" \in DOMAIN st
           /\ st.should_end

\* a failed call, then a call of the same response and a call of a later
\* iteration, both executed, and a summary returned
C14_Witness ==
    /\ pc = "__end__"
    /\ Len(wk.log) = 3
    /\ FailedAttempt(1) /\ wk.log[1].exc = "ClientError"
    /\ wk.log[2].iteration = wk.log[1].iteration /\ ~FailedAttempt(2)
    /\ wk.log[3].iteration > wk.log[1].iteration /\ ~FailedAttempt(3)
    /\ st.worker_output =
           <<"Executed: ", wk.log[2].name, ", ", wk.log[3].name>>

-----------------------------------------------------------------------------
(* Configuration failures in the worker (WorkerSpec) *)

\* the configuration the tool needs is missing from the environment
ConfigMissing(name) ==
    \/ /\ name = "send_email"
       /\ \/ Get(db.environ, "SES_SENDER_EMAIL", "") = ""
          \/ Get(db.environ, "SES_RECIPIENT_EMAIL", "") = ""
    \/ /\ name = "push_to_dynamodb"
       /\ "DYNAMODB_TABLE_NAME" \notin DOMAIN db.environ

ConfigFailed == \E i \in DOMAIN wk.log : ConfigMissing(wk.log[i].name)

\* C21: once a tool has been executed whose configuration is missing (SES
\* sender or recipient address, DynamoDB table name), the run has failed:
\* the worker raised and does nothing more, and the tool's name is not among
\* the actions it reports as taken.
C21_ConfigFailureIsFatal ==
    ConfigFailed =>
        /\ pc = "raised"
        /\ raised.node = "worker"
        /\ \A i \in DOMAIN wk.actions_taken :
               ~ConfigMissing(wk.actions_taken[i])

-----------------------------------------------------------------------------
(* The exhaustion message of evaluate_node (NodeSpec) *)

\* the state after the call that the probe made
ProbeAfter == Merge(probe.state, probe.out.update)

\* C22: after every call of evaluate_node that returns, on the path that
\* asks the evaluator and on the early exit for an empty translation alike,
\* error_message is non-empty exactly when the new iteration count has
\* reached max_iterations and the stored score is below the threshold.
C22_ErrorMessageIffExhausted ==
    (probe.fn = "evaluate_node" /\ probe.done /\ probe.out.exc = "") =>
        (Get(ProbeAfter, "error_message", "") # ""
            <=> /\ ProbeAfter.iteration >=
                       Get(probe.state, "max_iterations",
                           EvaluateDefaultMaxIterations)
                /\ ProbeAfter.score <
                       Get(probe.state, "threshold", EvaluateDefaultThreshold))

-----------------------------------------------------------------------------
(* The number of rounds of the translate/evaluate loop (Spec) *)

\* the threshold the router compares the score with
Threshold == Get(st, "threshold", RouteDefaultThreshold)

\* C23: the loop runs up to the first evaluation whose score reaches the
\* threshold and no further.  While the run is in the loop every score so
\* far was below the threshold and Translate and Evaluate were called once
\* per round; when the run advances to Plan with a score that reaches the
\* threshold, after k evaluations, Translate and Evaluate were called k
\* times each; a run that advances with a lower score has used up
\* max_iterations; and after Plan the loop is not entered again.
C23_LoopRunsToFirstPass ==
    /\ pc = "translate" =>
           /\ calls.translate = calls.evaluate
           /\ calls.evaluate > 0 => Score < Threshold
    /\ pc = "evaluate" =>
           /\ calls.translate = calls.evaluate + 1
           /\ calls.evaluate > 0 => Score < Threshold
    /\ pc = "plan" =>
           /\ calls.translate = calls.evaluate
           /\ calls.evaluate = Iteration
           /\ Score < Threshold => Iteration >= MaxIterations
    /\ calls.plan > 0 => pc \notin {"translate", "evaluate"}

\* scores below 0.75 twice, then 0.75: three rounds and on to Plan
C23_Witness ==
    /\ pc = "plan"
    /\ "max_iterations" \notin DOMAIN st
    /\ Threshold = 750 /\ Score = 750
    /\ calls.translate = 3 /\ calls.evaluate = 3

-----------------------------------------------------------------------------
(* Runs on an empty input (Spec) *)

\* the input text is empty, or nothing is left of it after sanitization
SanitizedEmpty == sanitize_user_input(Get(st, "input_text", <<>>)) = <<>>

\* C24: in a run whose input_text is empty or is sanitized to the empty
\* text, no node calls the external text generator and no node raises:
\* Translate returns the translated_text "", every Evaluate returns score 0
\* with the feedback "No translation provided." and the first one returns
\* iteration 1, and Plan returns a skip with the reason "No translated text
\* provided".
C24_EmptyInputMakesNoCall ==
    SanitizedEmpty =>
        /\ llm = NoCalls
        /\ pc # "raised"
        /\ calls.translate > 0 => st.translated_text = ""
        /\ calls.evaluate > 0 =>
               Score = 0 /\ st.feedback = NoTranslationFeedback
        /\ calls.evaluate = 1 => Iteration = 1
        /\ calls.plan > 0 =>
               /\ st.skip_processing
               /\ st.plan_reason = <<"No translated text provided">>
               /\ IsNone(st.incident_data)

C24_Witness ==
    /\ Get(st, "input_text", <<>>) # <<>>
    /\ SanitizedEmpty
    /\ calls.evaluate >= 1
    /\ calls.plan = 1
    /\ st.skip_processing

-----------------------------------------------------------------------------
(* The worker on a state without an incident (WorkerSpec) *)

\* C25: when the worker has been entered with no incident_data it has
\* returned: worker_output is "Skipped processing: " followed by the
\* plan_reason, or by "No processing required" when there is none,
\* should_end is True, and it made no model call and executed no tool call.
C25_WorkerSkips ==
    (calls.worker > 0 /\ IsNone(Get(st, "incident_data", None))) =>
        /\ pc = "__end__"
        /\ st.worker_output =
               <<"Skipped processing: ">>
                   \o Get(st, "plan_reason", <<"No processing required">>)
        /\ st.should_end
        /\ llm.worker = 0
        /\ wk.requested = <<>> /\ wk.log = <<>> /\ wk.actions_taken = <<>>

C25_Witness ==
    /\ calls.worker = 1
    /\ IsNone(Get(st, "incident_data", None))
    /\ "plan_reason" \notin DOMAIN st
    /\ st.worker_output = <<"Skipped processing: ", "No processing required">>

-----------------------------------------------------------------------------
(* utils/structured_output.py.  The content of a message is a sequence of   *)
(* pieces: single characters, the backquote token, the word json, and the  *)
(* members of a JSON object.  The schema is the one of the unit test: one  *)
(* required integer field "value".                                         *)

MemberValid == "\"value\": 7"
MemberWrongType == "\"value\": \"x\""

\* the instance a JSON member validates to; None when it violates the schema
MemberInstance(m) == IF m = MemberValid THEN [value |-> 7] ELSE None

\* is v an instance of the schema
SchemaValid(v) == DOMAIN v = {"value"} /\ v.value \in Int

\* schema.model_validate_json(text): the text must be one JSON object and the
\* object must satisfy the schema; pydantic raises ValidationError for both
model_validate_json(text) ==
    LET t      == Strip(text)
        inside == IF Len(t) >= 2 THEN Strip(SubSeq(t, 2, Len(t) - 1)) ELSE <<>>
        object == /\ Len(t) >= 2 /\ t[1] = "{" /\ t[Len(t)] = "}"
                  /\ Len(inside) = 1
                  /\ inside[1] \in {MemberValid, MemberWrongType}
        value  == IF object THEN MemberInstance(inside[1]) ELSE None
    IN  IF SchemaValid(value) THEN [exc |-> "", value |-> value]
        ELSE [exc |-> "ValidationError", value |-> None]

\* parser.parse(content): "handles plain JSON strings"; any other content
\* makes it raise
ParserParse(content) ==
    LET validated == model_validate_json(content)
    IN  IF validated.exc = "" THEN validated
        ELSE [exc |-> "OutputParserException", value |-> None]

\* a match of _JSON_FENCE_RE that starts at i: fence, json (optional),
\* whitespace, an opening brace, and lazily up to the first closing brace that
\* whitespace and a fence follow.  The result is the span of group 1, or <<>>.
FenceMatchAt(s, i) ==
    IF ~FenceAt(s, i) THEN <<>>
    ELSE LET p == IF i + 3 <= Len(s) /\ s[i + 3] = "json" THEN i + 4 ELSE i + 3
             q == SkipSpaces(s, p)
             closes == {k \in (q + 1)..Len(s) :
                           s[k] = "}" /\ FenceAt(s, SkipSpaces(s, k + 1))}
         IN  IF q <= Len(s) /\ s[q] = "{" /\ closes # {}
             THEN <<q, CHOOSE k \in closes : \A m \in closes : k <= m>>
             ELSE <<>>

NoJsonText == [found |-> FALSE, text |-> <<>>]

\* _extract_first_json_object(text): group 1 of the leftmost fence match,
\* else the text from the first opening to the last closing brace, else None
extract_first_json_object(text) ==
    LET starts == {i \in 1..Len(text) : FenceMatchAt(text, i) # <<>>}
        opens  == {i \in 1..Len(text) : text[i] = "{"}
        closes == {i \in 1..Len(text) : text[i] = "}"}
    IN  IF starts # {}
        THEN LET span == FenceMatchAt(
                             text, CHOOSE i \in starts : \A m \in starts : i <= m)
             IN  [found |-> TRUE, text |-> Strip(SubSeq(text, span[1], span[2]))]
        ELSE IF opens = {} \/ closes = {} THEN NoJsonText
        ELSE LET start  == CHOOSE i \in opens : \A m \in opens : i <= m
                 finish == CHOOSE i \in closes : \A m \in closes : i >= m
             IN  IF finish <= start THEN NoJsonText
                 ELSE [found |-> TRUE,
                       text |-> Strip(SubSeq(text, start, finish))]

\* what the helper does: the exception it raises ("" when none), the value it
\* returns, and the number of calls of llm.ainvoke
StructuredResult(exc, value, plain_calls) ==
    [exc |-> exc, value |-> value, plain_calls |-> plain_calls]

\* the fallback: one plain call, the parser, then the extracted JSON object
FallbackToJsonParse(plain) ==
    IF ~plain.ok THEN StructuredResult("Exception", None, 1)
    ELSE LET parsed    == ParserParse(plain.content)
             json_text == extract_first_json_object(plain.content)
             validated == model_validate_json(json_text.text)
         IN  IF parsed.exc = "" THEN StructuredResult("", parsed.value, 1)
             ELSE IF ~json_text.found
                  THEN StructuredResult("ValueError", None, 1)
                  ELSE StructuredResult(validated.exc, validated.value, 1)

\* the helper with the plain call made whatever the structured path did (C27)
ainvoke_plain_always(structured, plain) == FallbackToJsonParse(plain)

\* structured is what llm.with_structured_output(schema) and the runnable it
\* returns do: "construct_raises", "invoke_raises", or "returns" with a value;
\* plain is what llm.ainvoke does
ainvoke_structured_with_fallback(structured, plain) ==
    IF structured.kind = "returns"
    THEN StructuredResult("", structured.value, 0)
    ELSE FallbackToJsonParse(plain)

-----------------------------------------------------------------------------
(* Single calls of the utility functions (UtilSpec): _generate_incident_id *)
(* on two incidents, and sanitize_user_input on texts put together from    *)
(* fragments.                                                              *)

\* most fragments an input text is put together from
MaxFragments == 3

IdLocations == {"Hebron", "Hebron:", "Hebron:theft", "Hebron:theft:1769860800"}

IdIncidents ==
    [location : IdLocations, crime : {"theft", "stabbing"},
     created_at : {T_Jan, T_Feb}]

\* pieces of role markers, a tag, a code fence, newlines, blanks, plain text
Fragments ==
    { <<"u", "s">>, <<"e", "r", ":">>, <<"U", "s", "e", "r", " ", ":">>,
      <<"<", "b", ">">>, <<BackQuote, BackQuote, BackQuote>>,
      <<"\n", "\n">>, <<" ">>, <<"h", "i">> }

RECURSIVE FragmentTexts(_)
FragmentTexts(n) ==
    IF n = 0 THEN {<<>>}
    ELSE LET shorter == FragmentTexts(n - 1)
         IN  shorter \cup {t \o f : t \in shorter, f \in Fragments}

SanitizerInputs == FragmentTexts(MaxFragments)

\* JSON objects, braces, fences, blanks and plain text
ContentFragments ==
    { <<"{", MemberValid, "}">>, <<"{", " ", MemberWrongType, "}">>,
      <<"{">>, <<"}">>, <<BackQuote, BackQuote, BackQuote>>,
      <<BackQuote, BackQuote, BackQuote, "json", "\n">>,
      <<"h", "i", " ">>, <<"\n">> }

MsPerDay == One * SecondsPerDay

\* created_at as the worker's tools declare it, "Unix timestamp in
\* milliseconds": 1969-12-31, 1970-01-02 and 1970-01-20, 00:00 UTC
MsTimestamps == {0 - MsPerDay, MsPerDay, 20 * MsPerDay}

MsIncidents ==
    [location : {"Hebron"}, crime : {"theft", "stabbing"},
     created_at : MsTimestamps]

AllOk == [k \in RetryAttempts |-> "ok"]

RECURSIVE ContentTexts(_)
ContentTexts(n) ==
    IF n = 0 THEN {<<>>}
    ELSE LET shorter == ContentTexts(n - 1)
         IN  shorter \cup {t \o f : t \in shorter, f \in ContentFragments}

\* llm.ainvoke raises, or returns a message with a content
PlainOutcomes ==
    {Invocation(FALSE, <<>>)}
        \cup {Invocation(TRUE, t) : t \in ContentTexts(MaxFragments)}

\* the structured path raises, or returns what the runnable produced: an
\* instance of the schema, or None when the response had no tool call
StructuredFailures == {[kind |-> "construct_raises"], [kind |-> "invoke_raises"]}
StructuredReturns ==
    {[kind |-> "returns", value |-> v] : v \in {[value |-> 42], None}}

StructuredProbes ==
    {[structured |-> s, plain |-> p] :
         s \in StructuredFailures, p \in PlainOutcomes}
        \cup {[structured |-> s, plain |-> p] :
                 s \in StructuredReturns,
                 p \in {Invocation(FALSE, <<>>),
                        Invocation(TRUE, <<"{", MemberValid, "}">>)}}

UtilInit ==
    /\ st = <<>>
    /\ pc = "idle"
    /\ calls = NoCalls
    /\ llm = NoCalls
    /\ fails = NoCalls
    /\ raised = NotRaised
    /\ entry = <<>>
    /\ db = NoDb
    /\ wk = NoWork
    /\ probe \in
          {Probe("_generate_incident_id", [a |-> a, b |-> b], NoInvocation) :
               a \in IdIncidents, b \in IdIncidents}
              \cup {Probe("sanitize_user_input", [text |-> t], NoInvocation) :
                       t \in SanitizerInputs}
              \cup {Probe("ainvoke_structured_with_fallback", x, NoInvocation) :
                       x \in StructuredProbes}
              \cup {Probe("push_to_dynamodb", [a |-> a, b |-> b], NoInvocation) :
                       a \in MsIncidents, b \in MsIncidents}

CallGenerateId ==
    Call("_generate_incident_id",
         [a |-> generate_incident_id(probe.state.a),
          b |-> generate_incident_id(probe.state.b)])

CallSanitize ==
    Call("sanitize_user_input", sanitize_user_input(probe.state.text))

CallStructured ==
    Call("ainvoke_structured_with_fallback",
         ainvoke_structured_with_fallback(
             probe.state.structured, probe.state.plain))

\* two calls of push_to_dynamodb, one after the other, on an empty table
\* whose operations succeed
CallPushTwice ==
    LET environ == [DYNAMODB_TABLE_NAME |-> "incidents"]
        first   == push_to_dynamodb(<<>>, environ, probe.state.a, AllOk, AllOk)
        second  == push_to_dynamodb(first.table, environ, probe.state.b,
                                    AllOk, AllOk)
    IN  Call("push_to_dynamodb",
             [first |-> first.call, second |-> second.call,
              table |-> second.table])

UtilNext == CallGenerateId \/ CallSanitize \/ CallStructured \/ CallPushTwice

UtilSpec == UtilInit /\ [][UtilNext]_vars

-----------------------------------------------------------------------------
(* Properties of _generate_incident_id (UtilSpec) *)

\* C26: two incidents get the same id exactly when they have the same
\* location, the same crime and the same created_at, also for locations that
\* contain the ':' that separates the fields in the hashed string.
C26_IdIdentifiesIncident ==
    (probe.fn = "_generate_incident_id" /\ probe.done) =>
        (probe.out.a = probe.out.b <=> probe.state.a = probe.state.b)

\* a location with the separator and the other incident's crime in it
C26_Witness ==
    /\ probe.fn = "_generate_incident_id" /\ probe.done
    /\ probe.state.a.location = "Hebron:theft"
    /\ probe.state.b.location = "Hebron" /\ probe.state.b.crime = "theft"
    /\ probe.state.a.created_at = probe.state.b.created_at
    /\ probe.out.a # probe.out.b

-----------------------------------------------------------------------------
(* Properties of sanitize_user_input (UtilSpec) *)

Sanitized == probe.fn = "sanitize_user_input" /\ probe.done

\* C29: sanitizing a sanitized text changes nothing, and no sanitized text
\* is longer than 4096 characters.
C29_SanitizeIdempotent ==
    Sanitized =>
        /\ sanitize_user_input(probe.out) = probe.out
        /\ Len(probe.out) <= 4096

\* the text has a match of (system|assistant|user)\s*: , in any case
HasRoleMarker(s) == \E i \in 1..Len(s) : RoleMarkerEnd(s, i) > 0

\* C30: no sanitized text contains a role marker, whatever the input was.
C30_NoRoleMarkerLeft == Sanitized => ~HasRoleMarker(probe.out)

-----------------------------------------------------------------------------
(* Properties of ainvoke_structured_with_fallback (UtilSpec) *)

StructuredDone == probe.fn = "ainvoke_structured_with_fallback" /\ probe.done

StructuredFailed == probe.state.structured.kind # "returns"

\* C27: the plain llm.ainvoke is not called when the structured path returned,
\* and is called exactly once when the structured path raised, at
\* with_structured_output or at the runnable's ainvoke.
C27_PlainCallOnlyAfterFailure ==
    StructuredDone =>
        probe.out.plain_calls = (IF StructuredFailed THEN 1 ELSE 0)

\* the structured path returned its instance, with a plain path that would
\* have given another one
C27_Witness ==
    /\ StructuredDone
    /\ ~StructuredFailed
    /\ probe.state.plain.ok
    /\ probe.out.plain_calls = 0
    /\ probe.out.value = [value |-> 42]

\* the runnable's ainvoke raised and the one plain call gave the value
C27_WitnessFallback ==
    /\ StructuredDone
    /\ probe.state.structured.kind = "invoke_raises"
    /\ probe.out.plain_calls = 1
    /\ probe.out.value = [value |-> 7]

\* C28: a returned value is an instance of the schema on either path; failing
\* that the call raises, ValueError when the fallback text has no JSON object
\* and ValidationError when the extracted JSON violates the schema.
C28_ReturnsSchemaValid ==
    StructuredDone =>
        /\ probe.out.exc = "" => SchemaValid(probe.out.value)
        /\ probe.out.exc = "ValueError" =>
               ~extract_first_json_object(probe.state.plain.content).found
        /\ probe.out.exc = "ValidationError" =>
               extract_first_json_object(probe.state.plain.content).found

\* the same restricted to calls whose structured path raised
C28_FallbackSchemaValid ==
    (StructuredDone /\ StructuredFailed) =>
        /\ probe.out.exc = "" => SchemaValid(probe.out.value)
        /\ probe.out.exc \in {"", "Exception", "ValueError", "ValidationError"}

-----------------------------------------------------------------------------
(* Termination of the worker (WorkerSpec) *)

WorkerCap == Get(st, "worker_max_iterations", WorkerDefaultMaxIterations)

WorkerOver == pc \in {"__end__", "raised"}

\* a bound on the steps the worker still takes: one per pending tool call,
\* and for every iteration left one invocation and the tool calls of its
\* response (at most 2, the longest response)
WorkerSteps ==
    LET left == IF wk.iteration < WorkerCap
                THEN WorkerCap - wk.iteration ELSE 0
    IN  CASE WorkerOver -> 0
          [] pc = "worker" -> 2 + 3 * left
          [] OTHER -> 1 + Len(wk.pending) + 3 * left

WorkerBounded ==
    /\ llm.worker <= WorkerCap
    /\ calls.worker <= 1
    /\ pc = "__end__" =>
           /\ "should_end" \in DOMAIN st
           /\ st.should_end
           /\ should_continue(st) = "end"
    /\ should_continue(st) = "worker" <=> ~Get(st, "should_end", FALSE)

\* C31: whatever the model answers, also when it asks for a tool in every
\* response, worker_node invokes it at most worker_max_iterations times (10
\* when the state has none) and comes to an end, every step bringing it
\* nearer to its end; whenever it returns
\* should_end is True, so should_continue gives "end" after the one worker
\* pass, and gives "worker" exactly while should_end is false or absent.
C31_WorkerTerminates ==
    []WorkerBounded /\ [][WorkerSteps' < WorkerSteps]_vars

\* the model asked for a tool in each of the 10 invocations the default
\* allows, and the worker returned
C31_Witness ==
    /\ pc = "__end__"
    /\ "worker_max_iterations" \notin DOMAIN st
    /\ llm.worker = WorkerDefaultMaxIterations
    /\ Len(wk.log) = WorkerDefaultMaxIterations
    /\ st.should_end

-----------------------------------------------------------------------------
(* The incident the worker's actions are given (WorkerSpec) *)

\* the incident the i-th executed tool call passed to its tool
PassedIncident(i) == ArgsIncident(wk.log[i].args)

\* C32: every send_email and push_to_dynamodb the worker executes is given
\* the location, crime and created_at of state.incident_data, so all actions
\* of a run are given the same incident.
C32_ActionsUseThePlannedIncident ==
    \A i \in DOMAIN wk.log :
        wk.log[i].name \in WorkerTools =>
            PassedIncident(i) = Get(st, "incident_data", None)

-----------------------------------------------------------------------------
(* The summary the worker returns (WorkerSpec) *)

IsWorkerTool(name) == name \in WorkerTools

\* the names of the actions attempted, in the order of their execution
AttemptedNames == SelectSeq(LogNames, IsWorkerTool)

\* C33: when the worker has run its loop and returned with no failed model
\* invocation, worker_output is "Executed: " and the names of all attempted
\* actions in execution order, failed ones included, and is "No actions
\* taken" exactly when none was attempted.
C33_SummaryNamesEveryAttempt ==
    (WorkerDone /\ fails.worker = 0) =>
        st.worker_output =
            IF AttemptedNames = <<>> THEN <<"No actions taken">>
            ELSE <<"Executed: ">> \o Join(AttemptedNames, ", ")

\* the same for the actions whose tool returned: the names the summary has
C33_SummaryNamesReturnedTools ==
    (WorkerDone /\ fails.worker = 0) =>
        st.worker_output = WorkerSummary(wk.actions_taken).worker_output

-----------------------------------------------------------------------------
(* The partition key of push_to_dynamodb for created_at in milliseconds    *)
(* (UtilSpec)                                                              *)

\* year and month, in UTC, of the instant ms milliseconds after the epoch
UtcMonthOfMs(ms) == extract_year_month(ms \div One)

PushedTwice == probe.fn = "push_to_dynamodb" /\ probe.done

\* C35: with created_at in milliseconds both incidents are stored, each in
\* the partition of the UTC month it was created in: the partitions of the
\* table are the months of the two incidents, one partition when the months
\* are the same and two when they differ.
C35_PartitionIsUtcMonth ==
    PushedTwice =>
        /\ probe.out.first.at = "returned"
        /\ probe.out.second.at = "returned"
        /\ DOMAIN probe.out.table =
               {UtcMonthOfMs(probe.state.a.created_at),
                UtcMonthOfMs(probe.state.b.created_at)}

\* the same with created_at read as seconds, as _extract_year_month does
C35_PartitionIsMonthOfSeconds ==
    PushedTwice =>
        DOMAIN probe.out.table =
            {extract_year_month(probe.state.a.created_at),
             extract_year_month(probe.state.b.created_at)}

-----------------------------------------------------------------------------
(* The worker on the incident that plan_node built (Spec) *)

HasLine(prompt, line) == \E i \in DOMAIN prompt : prompt[i] = line

\* the state has an incident with a location and a crime
CarriesIncident ==
    LET incident_data == Get(st, "incident_data", None)
    IN  {"location", "crime"} \subseteq DOMAIN incident_data

\* C34: in every state with an incident_data that has location and crime,
\* whether or not it has created_at, _build_user_prompt does not raise and
\* its prompt has the lines of the location and of the crime; a worker that
\* was entered with such an incident has not raised and is at its model call.
C34_PromptBuiltForPlannedIncident ==
    CarriesIncident =>
        /\ build_user_prompt(st).exc = ""
        /\ HasLine(build_user_prompt(st).prompt,
                   <<"- location: ", st.incident_data.location>>)
        /\ HasLine(build_user_prompt(st).prompt,
                   <<"- crime: ", st.incident_data.crime>>)
        /\ calls.worker > 0 => (pc = "loop" /\ raised.node # "worker")

-----------------------------------------------------------------------------
(* Exhaustion as evaluate_node and the router see it (Spec) *)

\* an Evaluate call returned in this step
EvaluateReturned == calls'.evaluate = calls.evaluate + 1 /\ pc' # "raised"

\* the router left the loop although the score is below its threshold
ExhaustionExit == pc = "plan" /\ Score < Threshold

\* C36: after every Evaluate call that returns, in states with and without
\* threshold and max_iterations, the router leaves the loop with a score
\* below the threshold exactly when this call returned a non-empty
\* error_message.
C36_ExhaustionAgreed ==
    [][EvaluateReturned =>
           (ExhaustionExit' <=> Get(st', "error_message", "") # "")]_vars

\* the same for calls that asked the evaluator, in states that set threshold
C36_AgreedWithThresholdSet ==
    [][(/\ EvaluateReturned
        /\ "threshold" \in DOMAIN st
        /\ Get(st, "translated_text", "") # "") =>
           (ExhaustionExit' <=> Get(st', "error_message", "") # "")]_vars

-----------------------------------------------------------------------------
(* The score the router decides on (Spec) *)

\* what the router does with the score s in state state
DecisionOn(s, state) ==
    IF \/ s >= Get(state, "threshold", RouteDefaultThreshold)
       \/ Get(state, "iteration", 0) >=
              Get(state, "max_iterations", RouteDefaultMaxIterations)
    THEN "plan" ELSE "translate"

-----------------------------------------------------------------------------
(* A failed model invocation in the worker (WorkerSpec) *)

WorkerLlmFailed == fails.worker > 0

\* C38: once an invocation of the model has failed the worker has returned,
\* without raising, "Worker failed: LLM error" and should_end True, and
\* nothing is executed or changed any more; the actions executed before the
\* failure are not named in the output.
C38_LlmFailureEndsWorker ==
    /\ [](WorkerLlmFailed =>
              /\ pc = "__end__"
              /\ raised = NotRaised
              /\ st.worker_output = <<"Worker failed: LLM error">>
              /\ st.should_end
              /\ fails.worker = 1)
    /\ [][WorkerLlmFailed => UNCHANGED <<wk, db, st, llm>>]_vars

\* two actions were executed in the first iteration and the second
\* invocation failed
C38_Witness ==
    /\ WorkerLlmFailed
    /\ llm.worker = 2
    /\ Len(wk.actions_taken) = 2
    /\ st.worker_output = <<"Worker failed: LLM error">>

=============================================================================
